---- MODULE Spec2Model ----
(***************************************************************************)
(* Model of the HRM pipeline: the retrying pattern execution of            *)
(* AutomatedExecutionEngine / Phase5ExecutionEngine                        *)
(* (_execute_pattern_with_retries) and the convergence analysis of         *)
(* AdvancedConvergenceAnalyzer with its pattern_performance store.         *)
(*                                                                         *)
(* Confidences are integers in hundredths (82 stands for 0.82); delays are *)
(* integers in tenths of a second (5 stands for 0.5 s).                    *)
(***************************************************************************)
EXTENDS Integers, Sequences, FiniteSets, TLC

(***************************************************************************)
(* Bounds of the model.                                                    *)
(***************************************************************************)
\* max_retries is drawn from 0..MaxRetriesInput
MaxRetriesInput == 2
\* the patterns run are the catalog patterns of at most MaxPatternLen steps
MaxPatternLen == 3

(***************************************************************************)
(* PatternOrchestrator                                                     *)
(***************************************************************************)
Complexities == {"simple", "medium", "complex", "expert"}

execution_patterns ==
    [c \in Complexities |->
        CASE c = "simple"  -> <<"brain_recall">>
          [] c = "medium"  -> <<"brain_recall", "web_search", "brain_remember">>
          [] c = "complex" -> <<"brain_recall", "sequential_thinking", "web_search",
                                "reasoning_tools", "brain_remember">>
          [] c = "expert"  -> <<"brain_recall", "sequential_thinking", "web_search",
                                "reasoning_tools", "brain_remember", "brain_recall">>]

GetPatternOrSimple(complexity) ==
    IF complexity \in Complexities
    THEN execution_patterns[complexity]
    ELSE execution_patterns["simple"]

get_pattern(complexity) ==
    IF complexity \in Complexities
    THEN execution_patterns[complexity]
    ELSE execution_patterns["medium"]

\* the complexity values a run is started with ("unknown" is no catalog key)
ComplexityInputs ==
    {c \in Complexities \cup {"unknown"} : Len(get_pattern(c)) <= MaxPatternLen}

(***************************************************************************)
(* Queries.  A query is a sequence of words; its text is the words joined  *)
(* by single spaces.  The substring tests of the classifiers are made word *)
(* by word: a one-word keyword is found inside a word that contains it, a  *)
(* keyword of several words where its words stand side by side.            *)
(***************************************************************************)
\* a query has at most MaxQueryLen words
MaxQueryLen == 3

Words == {"Consciousness", "imagine", "design", "system", "compare", "what", "is", "pizza"}

Queries == UNION {[1..n -> Words] : n \in 0..MaxQueryLen}

\* str.lower() / re.I on one word
Lower(w) == IF w = "Consciousness" THEN "consciousness" ELSE w

\* the table keywords that are substrings of a lower-case word
Inside(w) == IF w = "imagine" THEN {"imagine", "agi"} ELSE {w}

(***************************************************************************)
(* ComplexityAnalyzer (hrm_automation_engine)                              *)
(***************************************************************************)
\* self.complexity_patterns: every keyword as the sequence of its words
complexity_patterns ==
    [c \in Complexities |->
        CASE c = "expert"  -> {<<"consciousness">>, <<"emergent">>, <<"recursive">>,
                               <<"bootstrap">>, <<"agi">>, <<"superintelligence">>,
                               <<"singularity">>, <<"self-modification">>}
          [] c = "complex" -> {<<"design", "system">>, <<"architecture">>, <<"framework">>,
                               <<"multi-step">>, <<"systematic", "approach">>,
                               <<"hierarchical">>, <<"feedback", "loop">>}
          [] c = "medium"  -> {<<"compare">>, <<"contrast">>, <<"analyze">>, <<"evaluate">>,
                               <<"relationship">>, <<"trade-offs">>,
                               <<"pros", "and", "cons">>, <<"differences">>}
          [] c = "simple"  -> {<<"what", "is">>, <<"define">>, <<"explain">>, <<"basic">>,
                               <<"fundamental">>, <<"how", "to">>, <<"list", "of">>,
                               <<"tell", "me", "about">>}]

\* pattern in query_lower
KeywordIn(keyword, q) ==
    IF Len(keyword) = 1
    THEN \E i \in 1..Len(q) : keyword[1] \in Inside(Lower(q[i]))
    ELSE \E i \in 0..(Len(q) - Len(keyword)) :
            \A j \in 1..Len(keyword) : Lower(q[i + j]) = keyword[j]

\* any(pattern in query_lower for pattern in patterns)
LevelMatches(level, q) == \E keyword \in complexity_patterns[level] : KeywordIn(keyword, q)

SimpleFirstOrder == <<"simple", "medium", "complex", "expert">>

\* for complexity_level in ['expert', 'complex', 'medium', 'simple']
PriorityOrder == <<"expert", "complex", "medium", "simple">>

\* the smallest element of a non-empty set of integers
Smallest(S) == CHOOSE i \in S : \A j \in S : i <= j

\* ComplexityAnalyzer.assess: the first level of the loop that matches
assess(q) ==
    LET hits == {i \in 1..Len(PriorityOrder) : LevelMatches(PriorityOrder[i], q)}
    IN  IF hits = {} THEN "medium" ELSE PriorityOrder[Smallest(hits)]

(***************************************************************************)
(* ComplexityAssessor (hrm_core): regular expressions, re.I.  An           *)
(* alternative a.*b.*c is the sequence of its parts, found in this order.  *)
(***************************************************************************)
\* self.patterns: the alternatives of the three expressions of every level
patterns ==
    [c \in Complexities |->
        CASE c = "expert"  -> {<<"consciousness">>, <<"emergent">>, <<"recursive">>,
                               <<"paradigm", "shift">>, <<"bootstrap">>,
                               <<"self", "modifying">>, <<"meta", "cognition">>,
                               <<"artificial", "general">>, <<"superintelligence">>,
                               <<"singularity">>, <<"recursive", "improvement">>,
                               <<"intelligence", "explosion">>,
                               <<"cognitive", "architecture">>}
          [] c = "complex" -> {<<"design", "system">>, <<"multi", "step", "process">>,
                               <<"causal", "reasoning">>, <<"emergent", "properties">>,
                               <<"synthesize", "from", "multiple">>,
                               <<"cross", "domain", "analysis">>,
                               <<"systematic", "approach">>,
                               <<"optimize", "across", "dimensions">>,
                               <<"hierarchical", "structure">>, <<"feedback", "loop">>}
          [] c = "medium"  -> {<<"compare", "and", "contrast">>,
                               <<"analyze", "relationship">>,
                               <<"evaluate", "trade", "offs">>, <<"pros", "and", "cons">>,
                               <<"advantages", "disadvantages">>,
                               <<"correlation", "between">>,
                               <<"investigate", "connection">>, <<"examine", "impact">>,
                               <<"assess", "implications">>}
          [] c = "simple"  -> {<<"what", "is">>, <<"define">>, <<"explain", "simply">>,
                               <<"basic", "concept">>, <<"fundamental">>,
                               <<"how", "to", "do">>, <<"step", "by", "step">>,
                               <<"guide", "for">>, <<"tutorial">>, <<"list", "of">>,
                               <<"enumerate">>, <<"show", "me", "examples">>,
                               <<"tell", "me", "about">>}]

RECURSIVE PartsFrom(_, _, _)
\* the parts are found in order in the words q[from..]
PartsFrom(parts, q, from) ==
    IF parts = <<>> THEN TRUE
    ELSE \E i \in from..Len(q) :
            /\ Head(parts) \in Inside(Lower(q[i]))
            /\ PartsFrom(Tail(parts), q, i + 1)

\* pattern.search(query)
Search(alternative, q) == PartsFrom(alternative, q, 1)

\* any(pattern.search(query) for pattern in patterns)
CoreLevelMatches(level, q) == \E alternative \in patterns[level] : Search(alternative, q)

\* ComplexityAssessor.assess_complexity
assess_complexity(q) ==
    LET hits == {i \in 1..Len(PriorityOrder) : CoreLevelMatches(PriorityOrder[i], q)}
    IN  IF hits = {} THEN "medium" ELSE PriorityOrder[Smallest(hits)]

(***************************************************************************)
(* PatternSelector (hrm_core): the catalog with hierarchical levels        *)
(***************************************************************************)
Role(tool, level) == [tool |-> tool, level |-> level]

core_execution_patterns ==
    [c \in Complexities |->
        CASE c = "simple"  -> <<Role("brain_recall", "HIGH")>>
          [] c = "medium"  -> <<Role("brain_recall", "HIGH"), Role("web_search", "LOW"),
                                Role("brain_remember", "HIGH")>>
          [] c = "complex" -> <<Role("brain_recall", "HIGH"),
                                Role("sequential_thinking", "LOW"),
                                Role("web_search", "HIGH"), Role("reasoning_tools", "LOW"),
                                Role("brain_remember", "HIGH")>>
          [] c = "expert"  -> <<Role("brain_recall", "HIGH"),
                                Role("sequential_thinking", "LOW"),
                                Role("web_search", "HIGH"), Role("reasoning_tools", "LOW"),
                                Role("sequential_thinking", "LOW"),
                                Role("brain_remember", "HIGH")>>]

\* PatternSelector.get_pattern
core_get_pattern(complexity) ==
    IF complexity \in Complexities
    THEN core_execution_patterns[complexity]
    ELSE core_execution_patterns["medium"]

(***************************************************************************)
(* The tool invoker (external): what one awaited tool call can produce.    *)
(* A payload is named by the shape the context update looks at.            *)
(***************************************************************************)
Payloads ==
    {"none",                \* None, empty, or not a dict
     "final_answer",        \* dict holding a string under 'final_answer'
     "final_answer_bad",    \* dict whose 'final_answer' cannot be sliced
     "verification_result", \* dict holding a string 'verification_result'
     "memories",            \* dict with non-empty 'memories', first has 'content'
     "memories_bad",        \* dict with non-empty 'memories', first lacks 'content'
     "results",             \* dict with non-empty 'results', first has 'snippet'
     "search_confidence",   \* dict with 'search_confidence', empty lists
     "other"}               \* dict with none of the keys above

\* payloads and confidences the model's tool invoker returns
ToolPayloads == {"none", "final_answer", "final_answer_bad", "other"}
ToolConfidences == {82}

\* the failed results a tool returns: its confidence and its error_message
\* (a tool's own except branch reports confidence 0.0 with a message)
ReportedFailures == {[confidence |-> 0, error_message |-> "tool"]}
\* execute_real_brain_remember on a refused storage: success=False with
\* confidence 0.1 and no error_message
ToolFailures == ReportedFailures \cup {[confidence |-> 10, error_message |-> "None"]}

Engines == {"phase4", "phase5"}

\* Phase5ExecutionEngine: the segment appended to the context for a payload,
\* "unchanged" when the guard is false, "raises" when the excerpt raises
Phase5ContextSegment(data) ==
    CASE data = "none"                -> "unchanged"
      [] data = "final_answer"        -> "Analysis"
      [] data = "final_answer_bad"    -> "raises"
      [] data = "verification_result" -> "Verification"
      [] data = "memories"            -> "Memory"
      [] data = "memories_bad"        -> "raises"
      [] data = "results"             -> "Search"
      [] OTHER                        -> "Output"

\* AutomatedExecutionEngine: only 'final_answer' and 'search_confidence' chain
Phase4ContextSegment(data) ==
    CASE data = "none"                -> "unchanged"
      [] data = "final_answer"        -> "Answer"
      [] data = "final_answer_bad"    -> "raises"
      [] data = "search_confidence"   -> "Search"
      [] OTHER                        -> "unchanged"

ContextSegment(eng, data) ==
    IF eng = "phase5" THEN Phase5ContextSegment(data) ELSE Phase4ContextSegment(data)

\* the storage key a brain_remember step hands to the tool; <<>> for the
\* other tools, which take no key. history_len is len(self.execution_history)
\* when the parameters are prepared, i the index of the step in the pattern
SynthesisKey(eng, history_len, i, tool_name) ==
    IF tool_name # "brain_remember" THEN <<>>
    ELSE IF eng = "phase5" THEN <<"hrm_phase5", history_len, i, tool_name>>
    ELSE <<"hrm_synthesis", history_len, tool_name>>

\* asyncio.sleep(0.5 * (attempt + 1)), in tenths of a second
RetryDelay(attempt) == 5 * (attempt + 1)

IsLastAttemptOffByOne(attempt, maxr) == attempt = maxr

\* attempt == self.max_retries - 1
IsLastAttempt(attempt, maxr) == attempt = maxr - 1

\* the result a tool returns, after result.retry_count = attempt
ToolResult(tool, ok, data, conf, attempt) ==
    [tool_name |-> tool, success |-> ok, data |-> data, confidence |-> conf,
     error_message |-> IF ok THEN "None" ELSE "tool", retry_count |-> attempt]

\* a failed result a tool returns, after result.retry_count = attempt
FailedResult(tool, failure, attempt) ==
    [tool_name |-> tool, success |-> FALSE, data |-> "none",
     confidence |-> failure.confidence, error_message |-> failure.error_message,
     retry_count |-> attempt]

\* the MCPExecutionResult built in the except branch
ErrorResult(tool, attempt) ==
    [tool_name |-> tool, success |-> FALSE, data |-> "none", confidence |-> 0,
     error_message |-> "exception", retry_count |-> attempt]

(***************************************************************************)
(* Arithmetic: statistics.mean and statistics.stdev over hundredths.  A    *)
(* mean is kept as an exact fraction [num, den] in lowest terms; a         *)
(* comparison with a standard deviation is made on the squares.            *)
(***************************************************************************)
RECURSIVE GCD(_, _)
GCD(a, b) == IF b = 0 THEN a ELSE GCD(b, a % b)

Frac(n, d) == LET g == GCD(n, d) IN [num |-> n \div g, den |-> d \div g]

FracAdd(a, b) == Frac(a.num * b.den + b.num * a.den, a.den * b.den)

FracLeq(a, b) == a.num * b.den <= b.num * a.den

\* the two halves of a sequence of two or more elements (sums are taken by
\* halves to keep the evaluation shallow on the 51-entry histories)
FirstHalf(s) == SubSeq(s, 1, Len(s) \div 2)
SecondHalf(s) == SubSeq(s, Len(s) \div 2 + 1, Len(s))

RECURSIVE SumSeq(_)
SumSeq(s) ==
    IF s = <<>> THEN 0
    ELSE IF Len(s) = 1 THEN s[1]
    ELSE SumSeq(FirstHalf(s)) + SumSeq(SecondHalf(s))

RECURSIVE SumSquares(_)
SumSquares(s) ==
    IF s = <<>> THEN 0
    ELSE IF Len(s) = 1 THEN s[1] * s[1]
    ELSE SumSquares(FirstHalf(s)) + SumSquares(SecondHalf(s))

RECURSIVE FracSum(_)
FracSum(s) ==
    IF s = <<>> THEN Frac(0, 1)
    ELSE IF Len(s) = 1 THEN s[1]
    ELSE FracAdd(FracSum(FirstHalf(s)), FracSum(SecondHalf(s)))

\* statistics.mean of a non-empty list of numbers
Mean(s) == Frac(SumSeq(s), Len(s))

\* statistics.mean of a non-empty list of means
MeanOfMeans(s) == LET t == FracSum(s) IN Frac(t.num, t.den * Len(s))

\* n * (n - 1) * variance, for the sample variance of statistics.stdev
ScaledVariance(s) == Len(s) * SumSquares(s) - SumSeq(s) * SumSeq(s)

\* stdev(s) / mean(s) <= tenths / 10, for Len(s) > 1 and mean(s) > 0
SpreadAtMost(s, tenths) ==
    100 * Len(s) * ScaledVariance(s) <= tenths * tenths * (Len(s) - 1) * SumSeq(s) * SumSeq(s)

\* stdev(s) > mean(s), for Len(s) > 1 and mean(s) > 0
SpreadAboveOne(s) ==
    Len(s) * ScaledVariance(s) > (Len(s) - 1) * SumSeq(s) * SumSeq(s)

\* stdev(s) < mean(s), for Len(s) > 1 and mean(s) > 0
SpreadBelowOne(s) ==
    Len(s) * ScaledVariance(s) < (Len(s) - 1) * SumSeq(s) * SumSeq(s)

RECURSIVE SelectConfidences(_)
\* [r.confidence for r in mcp_results if r.success]
SelectConfidences(res) ==
    IF res = <<>> THEN <<>>
    ELSE (IF Head(res).success THEN <<Head(res).confidence>> ELSE <<>>)
         \o SelectConfidences(Tail(res))

(***************************************************************************)
(* AdvancedConvergenceAnalyzer: the four strategies.  A strategy's result  *)
(* keeps its 'converged' flag and where its 'score' lies: > 0 (which is all *)
(* the combination reads of the score to decide), < 0, and > 1.            *)
(***************************************************************************)
base_threshold == 75

\* the Complex threshold taken for the Medium one
ThresholdsWithMediumAtComplex(complexity) ==
    CASE complexity = "simple"  -> 65
      [] complexity = "medium"  -> 80
      [] complexity = "complex" -> 80
      [] complexity = "expert"  -> 85
      [] OTHER                  -> base_threshold

complexity_thresholds(complexity) ==
    CASE complexity = "simple"  -> 65
      [] complexity = "medium"  -> 75
      [] complexity = "complex" -> 80
      [] complexity = "expert"  -> 85
      [] OTHER                  -> base_threshold

\* confidence_stability >= 0.7
StabilityOk(confs) ==
    /\ SumSeq(confs) > 0
    /\ Len(confs) > 1 => SpreadAtMost(confs, 3)

\* confidence_stability > 0
StabilityPositive(confs) ==
    /\ SumSeq(confs) > 0
    /\ Len(confs) > 1 => SpreadBelowOne(confs)

\* _analyze_confidence_threshold; ok of total results succeeded.  'score' is
\* avg_confidence * success_rate * confidence_stability with the stability in
\* [0, 1]: it is below 0 only when the average is, and above 1 only when
\* avg_confidence * success_rate is.
ConfidenceThresholdAnalysis(confs, ok, total, complexity) ==
    [strategy  |-> "confidence_threshold",
     converged |-> /\ SumSeq(confs) >= complexity_thresholds(complexity) * Len(confs)
                   /\ 10 * ok >= 8 * total
                   /\ StabilityOk(confs),
     positive  |-> ok > 0 /\ StabilityPositive(confs),
     negative  |-> SumSeq(confs) < 0,
     above_one |-> SumSeq(confs) * ok > 100 * Len(confs) * total]

\* gains[i] = max(0, confidences[i] - confidences[i-1])
Gains(confs) ==
    [i \in 1..(Len(confs) - 1) |->
        IF confs[i + 1] > confs[i] THEN confs[i + 1] - confs[i] ELSE 0]

\* the confidences a (in hundredths) for which the binary64 difference
\* (a + 5)/100 - a/100 comes out above the literal 0.05
RoundedAboveFiveHundredths ==
    {9, 12, 15, 18, 21, 22, 23, 29, 35, 41, 47, 48, 49, 50, 51, 57, 58, 59, 60, 61,
     62, 63, 69, 70, 71, 72, 73, 74, 75, 76, 82, 83, 84, 85, 86, 87, 88, 94, 95}

\* g <= 0.05 for the gain g = gains[i], computed as confidences[i] - confidences[i-1]
IsSmallGain(confs, i) ==
    \/ Gains(confs)[i] < 5
    \/ Gains(confs)[i] = 5 /\ confs[i] \notin RoundedAboveFiveHundredths

\* any recent gain counts as small
DiminishingAlways(confs, n) == TRUE

\* diminishing = all(g <= 0.05 for g in gains[-2:])
Diminishing(confs, n) == IsSmallGain(confs, n - 1) /\ IsSmallGain(confs, n)

\* _analyze_diminishing_returns; of the strategies only this one keeps its
\* 'score' as a fraction (in hundredths)
DiminishingReturnsAnalysis(confs) ==
    IF Len(confs) < 3
    THEN [strategy |-> "diminishing_returns", converged |-> FALSE, positive |-> FALSE,
          negative |-> FALSE, above_one |-> FALSE, score |-> Frac(0, 1)]
    ELSE LET gains == Gains(confs)
             n == Len(gains)
             conv == Diminishing(confs, n) /\ SumSeq(gains) < 10 * n
         IN  [strategy  |-> "diminishing_returns",
              converged |-> conv,
              positive  |-> conv \/ SumSeq(gains) > 0,
              negative  |-> FALSE,
              above_one |-> IF conv THEN FALSE ELSE SumSeq(gains) > 100 * n,
              score     |-> IF conv THEN Frac(100 * n - SumSeq(gains), n)
                            ELSE Frac(SumSeq(gains), n)]

RECURSIVE ToolNames(_)
\* the keys of tool_results, in insertion order
ToolNames(res) ==
    IF res = <<>> THEN <<>>
    ELSE LET rest == ToolNames(SubSeq(res, 1, Len(res) - 1))
             t == res[Len(res)].tool_name
         IN  IF \E i \in 1..Len(rest) : rest[i] = t THEN rest ELSE Append(rest, t)

\* the successful confidences of one tool
ToolConfs(res, t) ==
    SelectConfidences(SelectSeq(res, LAMBDA r : r.tool_name = t))

RECURSIVE ConsensusScores(_, _)
\* consensus_scores: the mean of each tool that has a successful confidence
ConsensusScores(res, names) ==
    IF names = <<>> THEN <<>>
    ELSE (IF ToolConfs(res, Head(names)) = <<>> THEN <<>>
          ELSE <<Mean(ToolConfs(res, Head(names)))>>)
         \o ConsensusScores(res, Tail(names))

RECURSIVE DenProduct(_)
DenProduct(fs) == IF fs = <<>> THEN 1 ELSE Head(fs).den * DenProduct(Tail(fs))

\* the fractions of fs times their common denominator: the same ratios as integers
Scaled(fs) == [i \in 1..Len(fs) |-> fs[i].num * (DenProduct(fs) \div fs[i].den)]

\* _analyze_consensus_validation
ConsensusValidationAnalysis(res, pat) ==
    IF pat = <<>> \/ Len(res) < 2
    THEN [strategy |-> "consensus_validation", converged |-> FALSE, positive |-> FALSE,
          negative |-> FALSE, above_one |-> FALSE]
    ELSE LET scores == ConsensusScores(res, ToolNames(res))
             v == Scaled(scores)
             d == DenProduct(scores)
         IN  IF scores = <<>>
             THEN [strategy |-> "consensus_validation", converged |-> FALSE,
                   positive |-> FALSE, negative |-> FALSE, above_one |-> FALSE]
             ELSE [strategy  |-> "consensus_validation",
                   converged |-> /\ SumSeq(v) >= 75 * d * Len(v)
                                 /\ (Len(v) > 1 /\ SumSeq(v) > 0) => SpreadAtMost(v, 2),
                   positive  |-> /\ SumSeq(v) > 0
                                 /\ Len(v) > 1 => SpreadBelowOne(v),
                   negative  |-> \/ SumSeq(v) < 0
                                 \/ /\ SumSeq(v) > 0
                                    /\ Len(v) > 1
                                    /\ SpreadAboveOne(v),
                   above_one |-> SumSeq(v) > 100 * d * Len(v)]

\* f"{complexity}:{'-'.join(pattern)}"
PatternKey(complexity, pat) == <<complexity, pat>>

NewPerformance ==
    [executions |-> 0, avg_confidence |-> Frac(0, 1), confidence_history |-> <<>>]

\* self.pattern_performance[pattern_key], initialised when missing
Performance(store, key) == IF key \in DOMAIN store THEN store[key] ELSE NewPerformance

\* min(0.9, historical_data['avg_confidence'] + 0.1)
AdaptiveThreshold(avg) ==
    LET plus == FracAdd(avg, Frac(10, 1))
    IN  IF FracLeq(Frac(90, 1), plus) THEN Frac(90, 1) ELSE plus

\* _analyze_adaptive_learning without its first-execution branch
AdaptiveLearningWithoutFirstExecution(confs, pat, complexity, store) ==
    IF pat = <<>>
    THEN [strategy |-> "adaptive_learning", converged |-> FALSE, positive |-> FALSE,
          negative |-> FALSE, above_one |-> FALSE]
    ELSE LET historical_data == Performance(store, PatternKey(complexity, pat))
             current_confidence == Mean(confs)
             adaptive_threshold == AdaptiveThreshold(historical_data.avg_confidence)
         IN  [strategy  |-> "adaptive_learning",
              converged |-> FracLeq(adaptive_threshold, current_confidence),
              positive  |-> current_confidence.num > 0,
              negative  |-> current_confidence.num < 0,
              above_one |-> ~FracLeq(current_confidence, adaptive_threshold)]

\* _analyze_adaptive_learning, against the store as it stands before the update
AdaptiveLearningAnalysis(confs, pat, complexity, store) ==
    IF pat = <<>>
    THEN [strategy |-> "adaptive_learning", converged |-> FALSE, positive |-> FALSE,
          negative |-> FALSE, above_one |-> FALSE]
    ELSE LET historical_data == Performance(store, PatternKey(complexity, pat))
             current_confidence == Mean(confs)
             adaptive_threshold == AdaptiveThreshold(historical_data.avg_confidence)
         IN  IF historical_data.executions > 0
             THEN \* 'score': current_confidence / adaptive_threshold
                  [strategy  |-> "adaptive_learning",
                   converged |-> FracLeq(adaptive_threshold, current_confidence),
                   positive  |-> current_confidence.num > 0,
                   negative  |-> current_confidence.num < 0,
                   above_one |-> ~FracLeq(current_confidence, adaptive_threshold)]
             ELSE \* 'score': current_confidence
                  [strategy  |-> "adaptive_learning",
                   converged |-> FracLeq(Frac(base_threshold, 1), current_confidence),
                   positive  |-> current_confidence.num > 0,
                   negative  |-> current_confidence.num < 0,
                   above_one |-> ~FracLeq(current_confidence, Frac(100, 1))]

(***************************************************************************)
(* _combine_convergence_strategies                                         *)
(***************************************************************************)
weights(strategy) ==
    CASE strategy = "confidence_threshold" -> 40
      [] strategy = "diminishing_returns"  -> 20
      [] strategy = "consensus_validation" -> 25
      [] strategy = "adaptive_learning"    -> 15
      [] OTHER                             -> 10

\* s.get('score', 0) > 0
IsValidStrategy(s) == s.positive

RECURSIVE ConvergenceVotes(_)
\* convergence_votes, summed over the valid strategies
ConvergenceVotes(strategies) ==
    IF strategies = <<>> THEN 0
    ELSE (IF IsValidStrategy(Head(strategies)) /\ Head(strategies).converged
          THEN weights(Head(strategies).strategy) ELSE 0)
         + ConvergenceVotes(Tail(strategies))

MajorityVoteAboveSixty(votes) == votes >= 60

\* convergence_votes >= 0.5
MajorityVote(votes) == votes >= 50

CreateVotedResult(reason) ==
    [converged |-> FALSE, confidence |-> "0.0", reason |-> reason,
     voted |-> TRUE, convergence_votes |-> 0, strategy_details |-> <<>>]

\* _create_convergence_result
CreateConvergenceResult(reason) ==
    [converged |-> FALSE, confidence |-> "0.0", reason |-> reason,
     voted |-> FALSE, convergence_votes |-> 0, strategy_details |-> <<>>]

CombineConvergenceStrategies(strategies) ==
    IF SelectSeq(strategies, IsValidStrategy) = <<>>
    THEN CreateConvergenceResult("No valid convergence strategies")
    ELSE [converged |-> MajorityVote(ConvergenceVotes(strategies)),
          confidence |-> "combined_score",
          reason |-> "Combined analysis",
          voted |-> TRUE,
          convergence_votes |-> ConvergenceVotes(strategies),
          strategy_details |-> SelectSeq(strategies, IsValidStrategy)]

(***************************************************************************)
(* _update_convergence_history                                             *)
(***************************************************************************)
\* if len(perf_data['confidence_history']) > 50: keep [-50:]
HistoryCap == 50
\* if len(self.convergence_history) > 100: keep [-100:]
ConvergenceHistoryCap == 100

KeepFirst(s, cap) == IF Len(s) > cap THEN SubSeq(s, 1, cap) ELSE s

\* s[-cap:] when len(s) > cap
KeepLast(s, cap) == IF Len(s) > cap THEN SubSeq(s, Len(s) - cap + 1, Len(s)) ELSE s

\* executions += 1; history.append(current_avg); avg = mean(history); truncate
RecordPerformance(perf, current_avg) ==
    LET appended == Append(perf.confidence_history, current_avg)
    IN  [executions |-> perf.executions + 1,
         avg_confidence |-> MeanOfMeans(appended),
         confidence_history |-> KeepLast(appended, HistoryCap)]

OverwrittenPerformance(store, key, current_avg) ==
    [k \in DOMAIN store \cup {key} |->
        IF k = key THEN RecordPerformance(NewPerformance, current_avg) ELSE store[k]]

\* the pattern_performance dict after the update of one key
UpdatedPerformance(store, key, current_avg) ==
    [k \in DOMAIN store \cup {key} |->
        IF k = key THEN RecordPerformance(Performance(store, key), current_avg)
        ELSE store[k]]

\* a store that already holds the current mean when the verdict is made
StoreUpdatedBeforeVerdict(store, key, current_avg) ==
    UpdatedPerformance(store, key, current_avg)

\* the store the strategies read: analyze_convergence calls the four strategies
\* and combines them before _update_convergence_history records the run
StoreAtVerdict(store, key, current_avg) == store

\* self.convergence_history after the append of one result
UpdatedConvergenceHistory(history, complexity, pat, result) ==
    KeepLast(Append(history, [pattern |-> pat, complexity |-> complexity,
                              convergence_result |-> result]),
             ConvergenceHistoryCap)

(***************************************************************************)
(* ConvergenceAnalyzer.analyze of the automation engine                    *)
(***************************************************************************)
convergence_threshold == 75

Analyze(mcp_results) ==
    IF mcp_results = <<>>
    THEN [converged |-> FALSE, confidence |-> "absent", reason |-> "No results to analyze",
          voted |-> FALSE, convergence_votes |-> 0, strategy_details |-> <<>>]
    ELSE LET confs == SelectConfidences(mcp_results)
             n == IF Len(confs) > 1 THEN Len(confs) ELSE 1
             conv == /\ 10 * Len(confs) >= 8 * Len(mcp_results)
                     /\ SumSeq(confs) >= convergence_threshold * n
         IN  [converged |-> conv, confidence |-> "absent",
              reason |-> IF conv THEN "Convergence achieved" ELSE "Low confidence",
              voted |-> FALSE, convergence_votes |-> 0, strategy_details |-> <<>>]

Runs == {"r1", "r2"}

VARIABLES
    engine,       \* which engine class the runs belong to
    max_retries,  \* self.max_retries
    invoker,      \* the tool invoker in use: the payloads and confidences it returns
    pc,           \* per run: where the coroutine stands
    complexity,   \* per run: the complexity the pattern was looked up for
    pattern,      \* per run: the pattern argument
    step,         \* per run: index of tool_name in pattern (1-based)
    attempt,      \* per run: the inner loop variable
    context,      \* per run: the running context, query first
    results,      \* per run: the results list
    calls,        \* per run: every tool call made: step, attempt, context, outcome
    sleeps,       \* per run: every asyncio.sleep made: step, attempt, delay
    pattern_performance,  \* analyzer: pattern key -> performance data
    convergence_history,  \* analyzer: the stored convergence results
    arrivals,     \* per pattern key: every mean confidence recorded, in order
    analyses,     \* number of analyzer calls made so far
    returned,     \* the last analyzer call: its arguments and the value returned
    query,        \* per run: the query execute was called with
    executed,     \* per run: the value execute returned
    execution_history,  \* engine: self.execution_history
    assessed      \* the last classifier or catalog call: its argument and value

engineVars == <<engine, max_retries, invoker>>

runVars == <<pc, complexity, pattern, step, attempt, context, results, calls, sleeps>>

analyzerVars == <<pattern_performance, convergence_history, arrivals, analyses, returned>>

executeVars == <<query, executed, execution_history, assessed>>

vars == <<engineVars, runVars, analyzerVars, executeVars>>

Query == <<"query">>

InitRun ==
    /\ pc = [r \in Runs |-> "idle"]
    /\ complexity = [r \in Runs |-> "unknown"]
    /\ pattern = [r \in Runs |-> <<>>]
    /\ step = [r \in Runs |-> 0]
    /\ attempt = [r \in Runs |-> 0]
    /\ context = [r \in Runs |-> <<>>]
    /\ results = [r \in Runs |-> <<>>]
    /\ calls = [r \in Runs |-> <<>>]
    /\ sleeps = [r \in Runs |-> <<>>]

NoCall == [by |-> "nobody", mcp_results |-> <<>>, complexity |-> "unknown",
           pattern |-> <<>>, strategies |-> <<>>,
           value |-> CreateConvergenceResult("no call")]

\* no execute call has returned, no classifier call was made
NotReturned == [returned |-> FALSE]

NotAssessed == [by |-> "nobody"]

\* AutomatedExecutionEngine.__init__: self.execution_history = []
InitExecute ==
    /\ query = [r \in Runs |-> <<>>]
    /\ executed = [r \in Runs |-> NotReturned]
    /\ execution_history = <<>>
    /\ assessed = NotAssessed

\* AdvancedConvergenceAnalyzer.__init__
InitAnalyzer ==
    /\ pattern_performance = <<>>
    /\ convergence_history = <<>>
    /\ arrivals = <<>>
    /\ analyses = 0
    /\ returned = NoCall

Init ==
    /\ engine \in Engines
    /\ max_retries \in 0..MaxRetriesInput
    /\ invoker = [payloads |-> ToolPayloads, confidences |-> ToolConfidences,
                  failures |-> ReportedFailures]
    /\ InitRun
    /\ InitAnalyzer
    /\ InitExecute

(***************************************************************************)
(* _execute_pattern_with_retries                                           *)
(***************************************************************************)
\* entry: results = [], context = query, first tool_name of the pattern
BeginWith(r, c) ==
    /\ pc[r] = "idle"
    /\ complexity' = [complexity EXCEPT ![r] = c]
    /\ pattern' = [pattern EXCEPT ![r] = get_pattern(c)]
    /\ pc' = [pc EXCEPT ![r] = "loop"]
    /\ step' = [step EXCEPT ![r] = 1]
    /\ attempt' = [attempt EXCEPT ![r] = 0]
    /\ context' = [context EXCEPT ![r] = Query]
    /\ results' = [results EXCEPT ![r] = <<>>]
    /\ calls' = [calls EXCEPT ![r] = <<>>]
    /\ sleeps' = [sleeps EXCEPT ![r] = <<>>]
    /\ UNCHANGED <<engineVars, executeVars, analyzerVars>>

Begin(r) == \E c \in ComplexityInputs : BeginWith(r, c)

\* for attempt in range(self.max_retries): the next attempt awaits the tool
CallTool(r) ==
    /\ pc[r] = "loop"
    /\ step[r] <= Len(pattern[r])
    /\ attempt[r] < max_retries
    /\ calls' = [calls EXCEPT ![r] =
          Append(@, [step |-> step[r], attempt |-> attempt[r],
                     context |-> context[r], outcome |-> "pending",
                     recorded |-> Len(results[r]),
                     key |-> SynthesisKey(engine, Len(execution_history),
                                          step[r] - 1, pattern[r][step[r]])])]
    /\ pc' = [pc EXCEPT ![r] = "awaiting"]
    /\ UNCHANGED <<engineVars, executeVars, analyzerVars, complexity, pattern, step, attempt,
                   context, results, sleeps>>

SetOutcome(log, o) == [log EXCEPT ![Len(log)].outcome = o]

\* break: on to the next tool_name
NextTool(r) ==
    /\ step' = [step EXCEPT ![r] = @ + 1]
    /\ attempt' = [attempt EXCEPT ![r] = 0]
    /\ pc' = [pc EXCEPT ![r] = "loop"]

\* the loop goes on to its next attempt
NextAttempt(r) ==
    /\ step' = step
    /\ attempt' = [attempt EXCEPT ![r] = @ + 1]
    /\ pc' = [pc EXCEPT ![r] = "loop"]

\* the except branch: an error result on the last attempt, else nothing; no sleep
HandleException(r, res) ==
    /\ results' = [results EXCEPT ![r] =
          IF IsLastAttempt(attempt[r], max_retries)
          THEN Append(res, ErrorResult(pattern[r][step[r]], attempt[r]))
          ELSE res]
    /\ NextAttempt(r)

\* the tool returns success: append, chain the context, break
ToolSucceeds(r) ==
    /\ pc[r] = "awaiting"
    /\ \E data \in invoker.payloads, conf \in invoker.confidences :
          LET result == ToolResult(pattern[r][step[r]], TRUE, data, conf, attempt[r])
              seg == ContextSegment(engine, data)
          IN  IF seg = "raises"
              THEN /\ calls' = [calls EXCEPT ![r] = SetOutcome(@, "success_raised")]
                   /\ HandleException(r, Append(results[r], result))
                   /\ UNCHANGED <<context, sleeps>>
              ELSE /\ calls' = [calls EXCEPT ![r] = SetOutcome(@, "success")]
                   /\ results' = [results EXCEPT ![r] = Append(@, result)]
                   /\ context' = [context EXCEPT ![r] =
                         IF seg = "unchanged" THEN @ ELSE Append(@, seg)]
                   /\ NextTool(r)
                   /\ UNCHANGED sleeps
    /\ UNCHANGED <<engineVars, executeVars, analyzerVars, complexity, pattern>>

\* the tool returns a failed result: append on the last attempt, else sleep
ToolFails(r) ==
    /\ pc[r] = "awaiting"
    /\ calls' = [calls EXCEPT ![r] = SetOutcome(@, "failed")]
    /\ IF IsLastAttempt(attempt[r], max_retries)
       THEN /\ \E failure \in invoker.failures :
                  results' = [results EXCEPT ![r] =
                      Append(@, FailedResult(pattern[r][step[r]], failure, attempt[r]))]
            /\ NextAttempt(r)
            /\ UNCHANGED sleeps
       ELSE /\ sleeps' = [sleeps EXCEPT ![r] =
                  Append(@, [step |-> step[r], attempt |-> attempt[r],
                             delay |-> RetryDelay(attempt[r])])]
            /\ pc' = [pc EXCEPT ![r] = "sleeping"]
            /\ UNCHANGED <<results, step, attempt>>
    /\ UNCHANGED <<engineVars, executeVars, analyzerVars, complexity, pattern, context>>

\* the awaited call raises
ToolRaises(r) ==
    /\ pc[r] = "awaiting"
    /\ calls' = [calls EXCEPT ![r] = SetOutcome(@, "raised")]
    /\ HandleException(r, results[r])
    /\ UNCHANGED <<engineVars, executeVars, analyzerVars, complexity, pattern, context, sleeps>>

\* the sleep is over: next attempt
WakeUp(r) ==
    /\ pc[r] = "sleeping"
    /\ NextAttempt(r)
    /\ UNCHANGED <<engineVars, executeVars, analyzerVars, complexity, pattern, context, results,
                   calls, sleeps>>

\* range(self.max_retries) is exhausted: next tool_name
AttemptsExhausted(r) ==
    /\ pc[r] = "loop"
    /\ step[r] <= Len(pattern[r])
    /\ attempt[r] >= max_retries
    /\ NextTool(r)
    /\ UNCHANGED <<engineVars, executeVars, analyzerVars, complexity, pattern, context, results,
                   calls, sleeps>>

\* the pattern is exhausted: return results
Return(r) ==
    /\ pc[r] = "loop"
    /\ step[r] > Len(pattern[r])
    /\ pc' = [pc EXCEPT ![r] = "done"]
    /\ UNCHANGED <<engineVars, executeVars, analyzerVars, complexity, pattern, step, attempt,
                   context, results, calls, sleeps>>

RunStep(r) ==
    \/ CallTool(r)
    \/ ToolSucceeds(r)
    \/ ToolFails(r)
    \/ ToolRaises(r)
    \/ WakeUp(r)
    \/ AttemptsExhausted(r)
    \/ Return(r)

Next == Begin("r1") \/ RunStep("r1")

Spec == Init /\ [][Next]_vars

(***************************************************************************)
(* AdvancedConvergenceAnalyzer.analyze_convergence                         *)
(***************************************************************************)
\* the four strategies, in the order they are combined
Strategies(mcp_results, cx, pat, store) ==
    LET confs == SelectConfidences(mcp_results)
    IN  <<ConfidenceThresholdAnalysis(confs, Len(confs), Len(mcp_results), cx),
          DiminishingReturnsAnalysis(confs),
          ConsensusValidationAnalysis(mcp_results, pat),
          AdaptiveLearningAnalysis(confs, pat, cx,
              StoreAtVerdict(store, PatternKey(cx, pat), Mean(confs)))>>

\* the strategy results handed to _combine_convergence_strategies: none when
\* the call returns before it
CombinedStrategies(mcp_results, cx, pat, store) ==
    IF SelectConfidences(mcp_results) = <<>> THEN <<>>
    ELSE Strategies(mcp_results, cx, pat, store)

\* the value analyze_convergence returns
ConvergenceResult(mcp_results, cx, pat, store) ==
    IF mcp_results = <<>>
    THEN CreateConvergenceResult("No results to analyze")
    ELSE IF SelectConfidences(mcp_results) = <<>>
    THEN CreateConvergenceResult("No successful results with confidence")
    ELSE CombineConvergenceStrategies(CombinedStrategies(mcp_results, cx, pat, store))

\* whether the call reaches _update_convergence_history with a pattern
Updates(mcp_results, pat) ==
    /\ mcp_results # <<>>
    /\ SelectConfidences(mcp_results) # <<>>
    /\ pat # <<>>

AnalyzeConvergence(mcp_results, cx, pat) ==
    LET result == ConvergenceResult(mcp_results, cx, pat, pattern_performance)
        key == PatternKey(cx, pat)
        current_avg == Mean(SelectConfidences(mcp_results))
    IN  /\ analyses' = analyses + 1
        /\ returned' = [by |-> "analyze_convergence", mcp_results |-> mcp_results,
                        complexity |-> cx, pattern |-> pat,
                        strategies |-> CombinedStrategies(mcp_results, cx, pat,
                                                          pattern_performance),
                        value |-> result]
        /\ IF Updates(mcp_results, pat)
           THEN /\ pattern_performance' =
                      UpdatedPerformance(pattern_performance, key, current_avg)
                /\ convergence_history' =
                      UpdatedConvergenceHistory(convergence_history, cx, pat, result)
                /\ arrivals' = [k \in DOMAIN arrivals \cup {key} |->
                      IF k = key
                      THEN Append(IF key \in DOMAIN arrivals THEN arrivals[key] ELSE <<>>,
                                  current_avg)
                      ELSE arrivals[k]]
           ELSE UNCHANGED <<pattern_performance, convergence_history, arrivals>>

(***************************************************************************)
(* SpecStore: direct calls of the two analyzers on bounded record lists.   *)
(***************************************************************************)
\* number of analyzer calls made in SpecStore
MaxAnalyses == 2
\* the confidences of the successful records handed to the analyzers
StoreConfidences == {70, 90}

RECURSIVE RecordLists(_)
\* the record lists a run of pat can return: per role a success or a failure
RecordLists(pat) ==
    IF pat = <<>> THEN {<<>>}
    ELSE LET first == {ToolResult(Head(pat), TRUE, "other", c, 0) : c \in StoreConfidences}
                      \cup {ToolResult(Head(pat), FALSE, "none", 0, 0)}
         IN  {<<rec>> \o rest : rec \in first, rest \in RecordLists(Tail(pat))}

\* the mcp_results arguments tried for a complexity: none, or a run's records
ResultInputs(cx) == {<<>>} \cup RecordLists(get_pattern(cx))

InitStore ==
    /\ engine = "phase5"
    /\ max_retries = 1
    /\ invoker = [payloads |-> ToolPayloads, confidences |-> ToolConfidences,
                  failures |-> ReportedFailures]
    /\ InitRun
    /\ InitAnalyzer
    /\ InitExecute

\* analyzer.analyze_convergence(mcp_results, complexity=cx, pattern=pat or None)
Evaluate ==
    /\ analyses < MaxAnalyses
    /\ \E cx \in ComplexityInputs, given \in BOOLEAN :
          \E res \in ResultInputs(cx) :
              AnalyzeConvergence(res, cx, IF given THEN get_pattern(cx) ELSE <<>>)
    /\ UNCHANGED <<engineVars, executeVars, runVars>>

\* convergence_analyzer.analyze(mcp_results): no state is read or written
CallAnalyze ==
    /\ analyses < MaxAnalyses
    /\ \E res \in UNION {ResultInputs(cx) : cx \in ComplexityInputs} :
          returned' = [by |-> "analyze", mcp_results |-> res, complexity |-> "unknown",
                       pattern |-> <<>>, strategies |-> <<>>, value |-> Analyze(res)]
    /\ analyses' = analyses + 1
    /\ UNCHANGED <<engineVars, executeVars, runVars, pattern_performance, convergence_history, arrivals>>

NextStore == Evaluate \/ CallAnalyze

SpecStore == InitStore /\ [][NextStore]_vars

(***************************************************************************)
(* SpecLong: a long sequence of analyses of one pattern key.               *)
(***************************************************************************)
\* number of sequential analyses of the key
MaxLongAnalyses == 52
\* how many times the recorded confidence changes from one analysis to the next
MaxSwitches == 1
\* the confidences of the single record of each analysed run
LongConfidences == {60, 90}

\* the number of places where consecutive entries of s differ
Switches(s) == Cardinality({i \in 1..(Len(s) - 1) : s[i] # s[i + 1]})

\* analyze_convergence of a one-record run of the simple pattern
Record ==
    /\ analyses < MaxLongAnalyses
    /\ \E conf \in LongConfidences :
          /\ AnalyzeConvergence(<<ToolResult("brain_recall", TRUE, "other", conf, 0)>>,
                                "simple", get_pattern("simple"))
    /\ \A key \in DOMAIN arrivals' : Switches(arrivals'[key]) <= MaxSwitches
    /\ UNCHANGED <<engineVars, executeVars, runVars>>

NextLong == Record

SpecLong == InitStore /\ [][NextLong]_vars

(***************************************************************************)
(* SpecConc: two runs of the same engine executed concurrently on one      *)
(* event loop, each followed by its analysis.  A coroutine yields only at  *)
(* its awaits (the tool call and the retry sleep); analyze_convergence has *)
(* no await and runs to completion once called.                            *)
(***************************************************************************)
\* the confidences the tool invoker returns in SpecConc
ConcConfidences == {60, 90}
\* max_retries is drawn from 1..MaxConcRetries in SpecConc
MaxConcRetries == 2

InitConc ==
    /\ engine = "phase5"
    /\ max_retries \in 1..MaxConcRetries
    /\ invoker = [payloads |-> {"final_answer"}, confidences |-> ConcConfidences,
                  failures |-> ReportedFailures]
    /\ InitRun
    /\ InitAnalyzer
    /\ InitExecute

\* the run's records are analysed: analyze_convergence(results, complexity, pattern)
EvaluateRun(r) ==
    /\ pc[r] = "done"
    /\ AnalyzeConvergence(results[r], complexity[r], pattern[r])
    /\ pc' = [pc EXCEPT ![r] = "analyzed"]
    /\ UNCHANGED <<engineVars, executeVars, complexity, pattern, step, attempt, context, results,
                   calls, sleeps>>

\* a sleep that would hold the whole thread: nothing else runs while a run sleeps
SchedulableUnlessAnotherSleeps(r) == \A o \in Runs \ {r} : pc[o] # "sleeping"

\* await asyncio.sleep(...) suspends the awaiting coroutine only: the event
\* loop resumes any other coroutine that is ready, whoever sleeps
Schedulable(r) == TRUE

\* one step of run r, taken when the event loop resumes it
ConcStep(r) ==
    \/ Schedulable(r) /\ BeginWith(r, "simple")
    \/ Schedulable(r) /\ CallTool(r)
    \/ Schedulable(r) /\ ToolSucceeds(r)
    \/ Schedulable(r) /\ ToolFails(r)
    \/ Schedulable(r) /\ ToolRaises(r)
    \/ Schedulable(r) /\ WakeUp(r)
    \/ Schedulable(r) /\ AttemptsExhausted(r)
    \/ Schedulable(r) /\ Return(r)
    \/ Schedulable(r) /\ EvaluateRun(r)

NextConc == ConcStep("r1") \/ ConcStep("r2")

SpecConc == InitConc /\ [][NextConc]_vars

\* the tier values a catalog or a strategy is asked for: its keys and two that are no key
TierInputs == Complexities \cup {"unknown", ""}

(***************************************************************************)
(* SpecStrategies: one list of confidences of successful results, a number *)
(* of failed results beside them and a tier, and calls of the confidence   *)
(* threshold and diminishing returns strategies on them.                   *)
(***************************************************************************)
MaxSamples == 5
MaxRecords == 4
MaxFailures == 1

\* confidences of the diminishing-returns lists and of the threshold lists
ReturnsConfidences == {25, 70, 75, 77, 78}
ThresholdConfidences == {30, 75, 88, 90, 92}

ReturnsInputs ==
    {[confidences |-> c, failures |-> 0, complexity |-> "complex"] :
        c \in UNION {[1..n -> ReturnsConfidences] : n \in 0..MaxSamples}}

ThresholdInputs ==
    {[confidences |-> c, failures |-> f, complexity |-> t] :
        c \in UNION {[1..n -> ThresholdConfidences] : n \in 1..MaxRecords},
        f \in 0..MaxFailures, t \in TierInputs}

InitStrategies ==
    /\ engine = "phase5"
    /\ max_retries = 1
    /\ invoker = [payloads |-> ToolPayloads, confidences |-> ToolConfidences,
                  failures |-> ReportedFailures]
    /\ InitRun
    /\ InitExecute
    /\ pattern_performance = <<>>
    /\ convergence_history = <<>>
    /\ arrivals = <<>>
    /\ analyses = 0
    /\ \E input \in ReturnsInputs \cup ThresholdInputs :
          returned = [by |-> "nobody", input |-> input, strategies |-> <<>>]

\* _analyze_confidence_threshold(confidences, success_rate, complexity) with
\* success_rate = successes / len(mcp_results)
ApplyConfidenceThreshold ==
    /\ returned.input.confidences # <<>>
    /\ LET input == returned.input
           ok == Len(input.confidences)
       IN  returned' = [by |-> "confidence_threshold", input |-> input,
                        strategies |-> <<ConfidenceThresholdAnalysis(
                            input.confidences, ok, ok + input.failures,
                            input.complexity)>>]
    /\ UNCHANGED <<engineVars, runVars, executeVars, pattern_performance,
                   convergence_history, arrivals, analyses>>

\* _analyze_diminishing_returns(confidences, mcp_results)
ApplyDiminishingReturns ==
    /\ returned' = [by |-> "diminishing_returns", input |-> returned.input,
                    strategies |-> <<DiminishingReturnsAnalysis(
                        returned.input.confidences)>>]
    /\ UNCHANGED <<engineVars, runVars, executeVars, pattern_performance,
                   convergence_history, arrivals, analyses>>

NextStrategies == ApplyConfidenceThreshold \/ ApplyDiminishingReturns

SpecStrategies == InitStrategies /\ [][NextStrategies]_vars

(***************************************************************************)
(* SpecExec: AutomatedExecutionEngine.execute, which Phase5ExecutionEngine *)
(* inherits: classification, catalog lookup, the run of the pattern,       *)
(* ConvergenceAnalyzer.analyze, InsightGenerator.generate, the result and  *)
(* the history entry, all inside try / except Exception.                   *)
(***************************************************************************)
MaxExecRetries == 2
MaxExecutions == 1

\* the queries execute is called with: one of a Simple keyword, one of none
ExecQueries == {<<"what", "is">>, <<"pizza">>}

ExecPayloads == {"final_answer_bad", "other"}
ExecConfidences == {80}

\* the keys of the dict ConvergenceAnalyzer.analyze returns
AnalyzeKeys(mcp_results) ==
    IF mcp_results = <<>> THEN {"converged", "reason"}
    ELSE {"converged", "success_rate", "average_confidence", "total_execution_time",
          "successful_tools", "failed_tools", "reason"}

\* the keys InsightGenerator.generate reads of convergence_data
GenerateReads(converged) ==
    {"converged", "total_execution_time"}
    \cup (IF converged THEN {"success_rate", "average_confidence"} ELSE {"reason"})

\* generate raises KeyError when a key it reads is missing
GenerateRaises(mcp_results) ==
    ~(GenerateReads(Analyze(mcp_results).converged) \subseteq AnalyzeKeys(mcp_results))

RECURSIVE AllSucceeded(_)
\* all(r.success for r in mcp_results)
AllSucceeded(res) ==
    IF res = <<>> THEN TRUE ELSE Head(res).success /\ AllSucceeded(Tail(res))

\* the HRMExecutionResult built at the end of the try block
CompletedResult(q, cx, pat, res) ==
    [returned |-> TRUE, path |-> "try", query |-> q, complexity |-> cx, pattern |-> pat,
     mcp_results |-> res,
     convergence_data |-> [converged |-> Analyze(res).converged,
                           keys |-> AnalyzeKeys(res)],
     success |-> AllSucceeded(res)]

\* the HRMExecutionResult built in the except branch
FaultResult(q) ==
    [returned |-> TRUE, path |-> "except", query |-> q, complexity |-> "unknown",
     pattern |-> <<>>, mcp_results |-> <<>>,
     convergence_data |-> [converged |-> FALSE, keys |-> {"converged", "error"}],
     success |-> FALSE]

\* the exception leaves execute
Propagated(q) == [returned |-> FALSE, path |-> "raised", query |-> q]

\* except Exception as e: return HRMExecutionResult(...)
Caught(q) == FaultResult(q)

\* one entry of self.execution_history (timestamp and execution_time left out)
HistoryEntry(result) ==
    [query |-> result.query, complexity |-> result.complexity, success |-> result.success]

\* a history that takes an entry whether or not the call ended in the except branch
HistoryWithEveryCall(history, result, raised) == Append(history, HistoryEntry(result))

\* self.execution_history.append({...}) is the last statement of the try block
\* before the return: the except branch appends nothing
HistoryAfter(history, result, raised) ==
    IF raised THEN history ELSE Append(history, HistoryEntry(result))

\* get_status: 'total_executions': len(self.execution_history)
total_executions == Len(execution_history)

InitExec ==
    /\ engine \in Engines
    /\ max_retries \in 0..MaxExecRetries
    /\ invoker = [payloads |-> ExecPayloads, confidences |-> ExecConfidences,
                  failures |-> ToolFailures]
    /\ InitRun
    /\ InitAnalyzer
    /\ InitExecute

\* execute(query) up to the first await: assess, get_pattern, entry of the run
ExecuteBegin(r) ==
    /\ pc[r] = "idle"
    /\ analyses < MaxExecutions
    /\ \E q \in ExecQueries :
          /\ query' = [query EXCEPT ![r] = q]
          /\ complexity' = [complexity EXCEPT ![r] = assess(q)]
          /\ pattern' = [pattern EXCEPT ![r] = get_pattern(assess(q))]
    /\ executed' = [executed EXCEPT ![r] = NotReturned]
    /\ pc' = [pc EXCEPT ![r] = "loop"]
    /\ step' = [step EXCEPT ![r] = 1]
    /\ attempt' = [attempt EXCEPT ![r] = 0]
    /\ context' = [context EXCEPT ![r] = Query]
    /\ results' = [results EXCEPT ![r] = <<>>]
    /\ calls' = [calls EXCEPT ![r] = <<>>]
    /\ sleeps' = [sleeps EXCEPT ![r] = <<>>]
    /\ UNCHANGED <<engineVars, analyzerVars, execution_history, assessed>>

\* execute after the run: analyze, generate, result, history entry, return;
\* the locals of the coroutine are gone with it
ExecuteFinish(r) ==
    /\ pc[r] = "done"
    /\ LET result == IF GenerateRaises(results[r]) THEN Caught(query[r])
                     ELSE CompletedResult(query[r], complexity[r], pattern[r], results[r])
       IN  /\ executed' = [executed EXCEPT ![r] = result]
           /\ execution_history' =
                 HistoryAfter(execution_history, result, GenerateRaises(results[r]))
    /\ analyses' = analyses + 1
    /\ pc' = [pc EXCEPT ![r] = "idle"]
    /\ complexity' = [complexity EXCEPT ![r] = "unknown"]
    /\ pattern' = [pattern EXCEPT ![r] = <<>>]
    /\ step' = [step EXCEPT ![r] = 0]
    /\ attempt' = [attempt EXCEPT ![r] = 0]
    /\ context' = [context EXCEPT ![r] = <<>>]
    /\ results' = [results EXCEPT ![r] = <<>>]
    /\ calls' = [calls EXCEPT ![r] = <<>>]
    /\ sleeps' = [sleeps EXCEPT ![r] = <<>>]
    /\ UNCHANGED <<engineVars, query, assessed, pattern_performance, convergence_history,
                   arrivals, returned>>

NextExec == ExecuteBegin("r1") \/ RunStep("r1") \/ ExecuteFinish("r1")

SpecExec == InitExec /\ [][NextExec]_vars

(***************************************************************************)
(* SpecKeys: execute called for a Medium query by two coroutines of one    *)
(* engine, one after the other or at the same time.                        *)
(***************************************************************************)
MaxKeyRetries == 2
MaxKeyExecutions == 2

\* a query with no keyword of any tier: Medium, a pattern with brain_remember
KeyQuery == <<"pizza">>

\* the execute calls made so far: those that returned and those under way
Started == analyses + Cardinality({r \in Runs : pc[r] # "idle"})

InitKeys ==
    /\ engine \in Engines
    /\ max_retries \in 1..MaxKeyRetries
    /\ invoker = [payloads |-> {"other"}, confidences |-> ExecConfidences,
                  failures |-> ReportedFailures]
    /\ InitRun
    /\ InitAnalyzer
    /\ InitExecute

\* execute(KeyQuery) up to the first await
ExecuteMedium(r) ==
    /\ pc[r] = "idle"
    /\ Started < MaxKeyExecutions
    /\ query' = [query EXCEPT ![r] = KeyQuery]
    /\ complexity' = [complexity EXCEPT ![r] = assess(KeyQuery)]
    /\ pattern' = [pattern EXCEPT ![r] = get_pattern(assess(KeyQuery))]
    /\ executed' = [executed EXCEPT ![r] = NotReturned]
    /\ pc' = [pc EXCEPT ![r] = "loop"]
    /\ step' = [step EXCEPT ![r] = 1]
    /\ attempt' = [attempt EXCEPT ![r] = 0]
    /\ context' = [context EXCEPT ![r] = Query]
    /\ results' = [results EXCEPT ![r] = <<>>]
    /\ calls' = [calls EXCEPT ![r] = <<>>]
    /\ sleeps' = [sleeps EXCEPT ![r] = <<>>]
    /\ UNCHANGED <<engineVars, analyzerVars, execution_history, assessed>>

\* the tool awaited is the storage: in SpecKeys the recall and the search
\* return success, the storage may be refused or raise
StorageAwaited(r) ==
    /\ pc[r] = "awaiting"
    /\ pattern[r][step[r]] = "brain_remember"

\* one step of the execute call of coroutine r
KeyStep(r) ==
    \/ ExecuteMedium(r)
    \/ CallTool(r)
    \/ ToolSucceeds(r)
    \/ StorageAwaited(r) /\ ToolFails(r)
    \/ StorageAwaited(r) /\ ToolRaises(r)
    \/ WakeUp(r)
    \/ AttemptsExhausted(r)
    \/ Return(r)
    \/ ExecuteFinish(r)

NextKeys == KeyStep("r1") \/ KeyStep("r2")

SpecKeys == InitKeys /\ [][NextKeys]_vars

(***************************************************************************)
(* SpecDetect: the core ConvergenceDetector, a pure function of a result   *)
(* list and an iteration number.                                           *)
(***************************************************************************)
MaxDetectRecords == 3
MaxIteration == 4

\* ConvergenceDetector.__init__: self.max_iterations = 3
max_iterations == 3
\* ConvergenceDetector.__init__: self.convergence_threshold = 0.75, in hundredths
detector_threshold == 75

DetectConfidences == {50, 90}

\* the dicts handed to detect_convergence: 'success' and 'confidence'
DetectRecords == [success : BOOLEAN, confidence : DetectConfidences]

DetectInputs ==
    {[results |-> res, iteration |-> it] :
        res \in UNION {[1..n -> DetectRecords] : n \in 0..MaxDetectRecords},
        it \in 1..MaxIteration}

\* results[-3:]
LastThree(res) == KeepLast(res, 3)

\* abs(confidences[i] - confidences[i-1]) for i in range(1, len(confidences))
Variations(confs) ==
    [i \in 1..(Len(confs) - 1) |->
        IF confs[i + 1] >= confs[i] THEN confs[i + 1] - confs[i]
        ELSE confs[i] - confs[i + 1]]

\* convergence_score > self.convergence_threshold, for len(results) >= 2, where
\* convergence_score = avg_confidence * 0.4 + stability * 0.3 + success_rate * 0.3;
\* both sides multiplied by 1000 * n * d * m
ScoreAboveThreshold(res) ==
    LET confs == [i \in 1..Len(LastThree(res)) |-> LastThree(res)[i].confidence]
        n == Len(confs)
        d == n - 1
        m == Len(res)
        S == SumSeq(confs)
        V == SumSeq(Variations(confs))
        k == Cardinality({i \in 1..m : res[i].success})
    IN  4 * S * d * m + 3 * (100 * d - V) * n * m + 300 * k * n * d
            > 10 * detector_threshold * n * d * m

\* ConvergenceDetector.detect_convergence(results, iteration): the converged flag
\* and the reason
detect_convergence(res, iteration) ==
    IF Len(res) < 2
    THEN [converged |-> FALSE, reason |-> "Insufficient data"]
    ELSE [converged |-> ScoreAboveThreshold(res) \/ iteration >= max_iterations,
          reason |-> "Score"]

InitDetect ==
    /\ engine = "phase4"
    /\ max_retries = 1
    /\ invoker = [payloads |-> ToolPayloads, confidences |-> ToolConfidences,
                  failures |-> ReportedFailures]
    /\ InitRun
    /\ InitExecute
    /\ pattern_performance = <<>>
    /\ convergence_history = <<>>
    /\ arrivals = <<>>
    /\ analyses = 0
    /\ \E input \in DetectInputs :
          returned = [by |-> "nobody", input |-> input, strategies |-> <<>>]

\* convergence_detector.detect_convergence(results, iteration)
DetectConvergence ==
    /\ returned.by = "nobody"
    /\ returned' = [by |-> "detect_convergence", input |-> returned.input,
                    strategies |-> <<>>,
                    value |-> detect_convergence(returned.input.results,
                                                 returned.input.iteration)]
    /\ UNCHANGED <<engineVars, runVars, executeVars, pattern_performance,
                   convergence_history, arrivals, analyses>>

NextDetect == DetectConvergence

SpecDetect == InitDetect /\ [][NextDetect]_vars

(***************************************************************************)
(* SpecStats: the counters of ActualMCPToolInterface under calls of its    *)
(* recall and storage methods. invoker holds the interface: its counters,  *)
(* its error log and, for the properties, the number of calls made of it.  *)
(***************************************************************************)
MaxToolCalls == 4

\* ActualMCPToolInterface.__init__(tool_executor), before any call
NewInterface(has_executor) ==
    [payloads |-> {"other"}, confidences |-> ToolConfidences, failures |-> ToolFailures,
     tool_executor |-> has_executor,
     execution_count |-> 0, success_count |-> 0, error_log |-> <<>>, calls_made |-> 0]

\* self.execution_count += 1, and self.success_count += 1 when counted a success
Counted(interface, success) ==
    [interface EXCEPT !.execution_count = @ + 1,
                      !.success_count = IF success THEN @ + 1 ELSE @,
                      !.calls_made = @ + 1]

\* the except branch: self.error_log.append(error_msg), no counter touched
Logged(interface, tool_name) ==
    [interface EXCEPT !.error_log = Append(@, tool_name), !.calls_made = @ + 1]

\* get_real_stats
get_real_stats(interface) ==
    [total_executions |-> interface.execution_count,
     success_count |-> interface.success_count,
     error_count |-> Len(interface.error_log)]

InitStats ==
    /\ engine = "phase5"
    /\ max_retries = 1
    /\ \E has_executor \in BOOLEAN : invoker = NewInterface(has_executor)
    /\ InitRun
    /\ InitAnalyzer
    /\ InitExecute

\* the result the interface method returns is kept in returned
InterfaceCall(interface, result) ==
    /\ invoker.calls_made < MaxToolCalls
    /\ invoker' = interface
    /\ returned' = [by |-> "interface", mcp_results |-> <<result>>,
                    complexity |-> "unknown", pattern |-> <<>>, strategies |-> <<>>,
                    value |-> CreateConvergenceResult("no call")]
    /\ UNCHANGED <<engine, max_retries, runVars, executeVars, pattern_performance,
                   convergence_history, arrivals, analyses>>

\* execute_real_brain_recall: the executor returns a dict (whatever it says), or
\* the placeholder answers: counted as an execution and a success
RecallReturns ==
    \E conf \in invoker.confidences :
        InterfaceCall(Counted(invoker, TRUE),
                      ToolResult("brain_recall", TRUE, "other", conf, 0))

\* execute_real_brain_recall: the executor raises
RecallRaises ==
    /\ invoker.tool_executor
    /\ InterfaceCall(Logged(invoker, "brain_recall"),
                     ErrorResult("brain_recall", 0))

\* execute_real_brain_remember: storage_success = result.get('success', True) is
\* true, or the placeholder answers
RememberStored ==
    InterfaceCall(Counted(invoker, TRUE),
                  ToolResult("brain_remember", TRUE, "other", 95, 0))

\* execute_real_brain_remember: the executor returns success=False
RememberRefused ==
    /\ invoker.tool_executor
    /\ InterfaceCall(Counted(invoker, FALSE),
                     FailedResult("brain_remember",
                                  [confidence |-> 10, error_message |-> "None"], 0))

\* execute_real_brain_remember: the executor raises
RememberRaises ==
    /\ invoker.tool_executor
    /\ InterfaceCall(Logged(invoker, "brain_remember"),
                     ErrorResult("brain_remember", 0))

NextStats ==
    RecallReturns \/ RecallRaises \/ RememberStored \/ RememberRefused \/ RememberRaises

SpecStats == InitStats /\ [][NextStats]_vars

(***************************************************************************)
(* SpecRate: the records of a run of the five-step Complex pattern, some   *)
(* failed, handed to either analyzer.                                      *)
(***************************************************************************)
MaxRateAnalyses == 1

\* analyzer.analyze_convergence(mcp_results, 1, 'complex', pattern)
EvaluateComplex ==
    /\ analyses < MaxRateAnalyses
    /\ \E res \in RecordLists(get_pattern("complex")) :
          AnalyzeConvergence(res, "complex", get_pattern("complex"))
    /\ UNCHANGED <<engineVars, executeVars, runVars>>

\* convergence_analyzer.analyze(mcp_results)
AnalyzeComplex ==
    /\ analyses < MaxRateAnalyses
    /\ \E res \in RecordLists(get_pattern("complex")) :
          returned' = [by |-> "analyze", mcp_results |-> res, complexity |-> "unknown",
                       pattern |-> <<>>, strategies |-> <<>>, value |-> Analyze(res)]
    /\ analyses' = analyses + 1
    /\ UNCHANGED <<engineVars, executeVars, runVars, pattern_performance,
                   convergence_history, arrivals>>

NextRate == EvaluateComplex \/ AnalyzeComplex

SpecRate == InitStore /\ [][NextRate]_vars

(***************************************************************************)
(* SpecRepeat: evaluations of one-record runs of the one-step pattern on   *)
(* one analyzer, for any tier.                                             *)
(***************************************************************************)
MaxRepeats == 2

RepeatConfidences == {70, 80, 90}

\* the one-record lists evaluated: a success with a confidence, or a failure
RepeatLists ==
    {<<ToolResult("brain_recall", TRUE, "other", c, 0)>> : c \in RepeatConfidences}
    \cup {<<ToolResult("brain_recall", FALSE, "none", 0, 0)>>}

\* analyzer.analyze_convergence(mcp_results, 1, tier, ['brain_recall'])
EvaluateOnce ==
    /\ analyses < MaxRepeats
    /\ \E res \in RepeatLists, tier \in TierInputs :
          AnalyzeConvergence(res, tier, get_pattern("simple"))
    /\ UNCHANGED <<engineVars, executeVars, runVars>>

NextRepeat == EvaluateOnce

SpecRepeat == InitStore /\ [][NextRepeat]_vars

(***************************************************************************)
(* SpecClassify: a query, and calls of the two classifiers on it and of    *)
(* the two catalogs, in any order and any number of times.                 *)
(***************************************************************************)
InitClassify ==
    /\ engine = "phase5"
    /\ max_retries = 1
    /\ invoker = [payloads |-> ToolPayloads, confidences |-> ToolConfidences,
                  failures |-> ReportedFailures]
    /\ InitRun
    /\ InitAnalyzer
    /\ \E q \in Queries : query = [r \in Runs |-> IF r = "r1" THEN q ELSE <<>>]
    /\ executed = [r \in Runs |-> NotReturned]
    /\ execution_history = <<>>
    /\ assessed = NotAssessed

\* complexity_analyzer.assess(query)
Assess ==
    /\ assessed' = [by |-> "assess", input |-> query["r1"],
                    value |-> assess(query["r1"])]
    /\ UNCHANGED <<engineVars, runVars, analyzerVars, query, executed, execution_history>>

\* ComplexityAssessor.assess_complexity(query)
AssessComplexity ==
    /\ assessed' = [by |-> "assess_complexity", input |-> query["r1"],
                    value |-> assess_complexity(query["r1"])]
    /\ UNCHANGED <<engineVars, runVars, analyzerVars, query, executed, execution_history>>

\* pattern_orchestrator.get_pattern(complexity)
GetPattern ==
    /\ \E tier \in TierInputs :
          assessed' = [by |-> "get_pattern", input |-> tier, value |-> get_pattern(tier)]
    /\ UNCHANGED <<engineVars, runVars, analyzerVars, query, executed, execution_history>>

\* PatternSelector.get_pattern(complexity)
CoreGetPattern ==
    /\ \E tier \in TierInputs :
          assessed' = [by |-> "core_get_pattern", input |-> tier,
                       value |-> core_get_pattern(tier)]
    /\ UNCHANGED <<engineVars, runVars, analyzerVars, query, executed, execution_history>>

NextClassify == Assess \/ AssessComplexity \/ GetPattern \/ CoreGetPattern

SpecClassify == InitClassify /\ [][NextClassify]_vars

(***************************************************************************)
(* Properties of _execute_pattern_with_retries, under Spec                 *)
(***************************************************************************)
\* the indices of the calls run r made for the step-th tool of its pattern
CallsOf(r, i) == {k \in 1..Len(calls[r]) : calls[r][k].step = i}

Failed(outcome) == outcome \in {"failed", "raised"}

\* C1: every returned run has exactly one record per pattern role, and every
\* record's retry_count lies in 0..max_retries-1, whatever max_retries is and
\* whatever the tool invoker does.
C1_OneRecordPerRole ==
    \A r \in Runs :
        pc[r] = "done" =>
            /\ Len(results[r]) = Len(pattern[r])
            /\ \A i \in 1..Len(results[r]) :
                  /\ 0 <= results[r][i].retry_count
                  /\ results[r][i].retry_count < max_retries

\* C2: with max_retries = m >= 1 and a tool invoker that only ever fails (a
\* failed result or a raise), the returned run has invoked every role exactly m
\* times and holds one record per role, each failed with retry_count = m - 1.
C2_AlwaysFailingInvoker ==
    \A r \in Runs :
        ( /\ pc[r] = "done"
          /\ max_retries >= 1
          /\ \A k \in 1..Len(calls[r]) : Failed(calls[r][k].outcome) )
        => /\ Len(results[r]) = Len(pattern[r])
           /\ \A i \in 1..Len(pattern[r]) : Cardinality(CallsOf(r, i)) = max_retries
           /\ \A i \in 1..Len(results[r]) :
                 /\ results[r][i].success = FALSE
                 /\ results[r][i].retry_count = max_retries - 1
                 /\ results[r][i].tool_name = pattern[r][i]

\* a returned 3-step run with max_retries = 2 whose every call failed, by a
\* failed result and by a raise
C2_Witness ==
    /\ pc["r1"] = "done"
    /\ max_retries = 2
    /\ Len(pattern["r1"]) = 3
    /\ Len(calls["r1"]) = 6
    /\ \A k \in 1..6 : Failed(calls["r1"][k].outcome)
    /\ \E k \in 1..6 : calls["r1"][k].outcome = "raised"
    /\ \E k \in 1..6 : calls["r1"][k].outcome = "failed"

\* C3: records are stored in pattern order, the i-th record being that of the
\* i-th role, and a role is only invoked once every earlier role has its record.
C3_RecordsInPatternOrder ==
    \A r \in Runs :
        /\ \A i \in 1..Len(results[r]) :
              /\ i <= Len(pattern[r])
              /\ results[r][i].tool_name = pattern[r][i]
        /\ \A k \in 1..Len(calls[r]) :
              /\ calls[r][k].recorded >= calls[r][k].step - 1
              /\ k > 1 => calls[r][k - 1].step <= calls[r][k].step

\* the steps before step i that a tool call of run r completed successfully
SucceededBefore(r, i) ==
    {j \in 1..(i - 1) : \E k \in CallsOf(r, j) : calls[r][k].outcome = "success"}

\* C4: the context passed to every attempt of step N is the query followed by
\* exactly one excerpt per earlier step that succeeded and nothing for a step
\* that failed, so that all attempts of one step receive the same context.
C4_ContextChaining ==
    \A r \in Runs :
        \A k \in 1..Len(calls[r]) :
            /\ Head(calls[r][k].context) = "query"
            /\ Len(calls[r][k].context) = 1 + Cardinality(SucceededBefore(r, calls[r][k].step))
            /\ \A l \in CallsOf(r, calls[r][k].step) :
                  calls[r][l].context = calls[r][k].context

\* the sleeps run r made after the given attempt of the given step
SleepsAfter(r, i, a) ==
    {n \in 1..Len(sleeps[r]) : sleeps[r][n].step = i /\ sleeps[r][n].attempt = a}

\* C5: every failed attempt that is not the last allowed one, be it a failed
\* result or a raise, is followed by one backoff delay; the delay grows strictly
\* with the attempt index; no delay follows the last attempt.
C5_BackoffAfterEveryFailure ==
    \A r \in Runs :
        /\ \A k \in 1..Len(calls[r]) :
              (Failed(calls[r][k].outcome) /\ calls[r][k].attempt < max_retries - 1)
              => Cardinality(SleepsAfter(r, calls[r][k].step, calls[r][k].attempt)) = 1
        /\ \A n \in 1..Len(sleeps[r]) :
              /\ sleeps[r][n].attempt < max_retries - 1
              /\ \A m \in 1..Len(sleeps[r]) :
                    (sleeps[r][m].step = sleeps[r][n].step
                        /\ sleeps[r][m].attempt < sleeps[r][n].attempt)
                    => sleeps[r][m].delay < sleeps[r][n].delay

(***************************************************************************)
(* Properties of the analyzers, under SpecStore                            *)
(***************************************************************************)
\* the weight a strategy result adds to the vote: its fixed weight when its
\* score is > 0 and it converged, else nothing
VoteOf(s, weight) == IF s.positive /\ s.converged THEN weight ELSE 0

\* the strategy result of the given kind among those combined
StrategyOf(strategies, kind) ==
    CHOOSE s \in {strategies[i] : i \in 1..Len(strategies)} : s.strategy = kind

\* C6: the verdict of the combination is converged if and only if the weights
\* 0.40 (confidence threshold), 0.20 (diminishing returns), 0.25 (consensus)
\* and 0.15 (adaptive learning) of the strategies with score > 0 and
\* converged = true sum to at least 0.5; a strategy with score <= 0 adds nothing.
C6_WeightedMajorityVote ==
    (returned.by = "analyze_convergence" /\ returned.strategies # <<>>)
    => LET votes == VoteOf(StrategyOf(returned.strategies, "confidence_threshold"), 40)
                    + VoteOf(StrategyOf(returned.strategies, "diminishing_returns"), 20)
                    + VoteOf(StrategyOf(returned.strategies, "consensus_validation"), 25)
                    + VoteOf(StrategyOf(returned.strategies, "adaptive_learning"), 15)
       IN  /\ returned.value.converged <=> votes >= 50
           /\ returned.value.voted => returned.value.convergence_votes = votes

\* a verdict converged on 0.40 + 0.15 alone, the two other strategies having
\* no positive score
C6_Witness ==
    /\ returned.by = "analyze_convergence"
    /\ returned.value.converged
    /\ returned.value.convergence_votes = 55
    /\ Len(returned.value.strategy_details) = 2

Stored(r) == pc[r] = "analyzed" /\ Updates(results[r], pattern[r])

\* the mean confidence run r handed to the store
RunMean(r) == Mean(SelectConfidences(results[r]))

\* C7: when two concurrent runs sharing a pattern key have both updated the
\* store, in whichever order the event loop ran them, the key's history holds
\* the mean confidences of both and its execution count has grown by exactly 2
\* (SpecConc starts from an empty store).
C7_NoLostUpdates ==
    ( /\ Stored("r1")
      /\ Stored("r2")
      /\ PatternKey(complexity["r1"], pattern["r1"])
            = PatternKey(complexity["r2"], pattern["r2"]) )
    => LET key == PatternKey(complexity["r1"], pattern["r1"])
       IN  /\ key \in DOMAIN pattern_performance
           /\ pattern_performance[key].executions = 2
           /\ pattern_performance[key].confidence_history
                 \in {<<RunMean("r1"), RunMean("r2")>>, <<RunMean("r2"), RunMean("r1")>>}

\* both runs updated the shared key, with different means, r1 after a retry
\* and r2 first
C7_Witness ==
    /\ Stored("r1")
    /\ Stored("r2")
    /\ sleeps["r1"] # <<>>
    /\ RunMean("r1") # RunMean("r2")
    /\ pattern_performance[PatternKey(complexity["r1"], pattern["r1"])].confidence_history
          = <<RunMean("r2"), RunMean("r1")>>

\* C8: for every pattern key, after any number of sequential updates, the
\* stored confidence history holds at most 50 entries, and they are the most
\* recent ones recorded for the key, in arrival order.
C8_HistoryCapped ==
    \A key \in DOMAIN pattern_performance :
        LET h == pattern_performance[key].confidence_history
            a == arrivals[key]
        IN  /\ Len(h) <= 50
            /\ Len(h) = IF Len(a) < 50 THEN Len(a) ELSE 50
            /\ \A i \in 1..Len(h) : h[i] = a[Len(a) - Len(h) + i]

\* a key updated more than 50 times, whose first recorded mean differs from
\* every mean that is kept
C8_Witness ==
    \E key \in DOMAIN pattern_performance :
        /\ Len(arrivals[key]) > 50
        /\ Len(pattern_performance[key].confidence_history) = 50
        /\ \A i \in 1..50 :
              pattern_performance[key].confidence_history[i] # arrivals[key][1]

\* C9: after every update, the stored running average of a pattern key is the
\* arithmetic mean of the key's stored, capped history.
C9_AverageOfStoredHistory ==
    \A key \in DOMAIN pattern_performance :
        pattern_performance[key].avg_confidence
            = MeanOfMeans(pattern_performance[key].confidence_history)

(***************************************************************************)
(* Properties of the classifiers and the catalogs, under SpecClassify      *)
(***************************************************************************)
\* the tier the priority law gives, from which tiers have a matching keyword
PriorityLaw(expert, complex, medium, simple) ==
    IF expert THEN "expert"
    ELSE IF complex THEN "complex"
    ELSE IF medium THEN "medium"
    ELSE IF simple THEN "simple"
    ELSE "medium"

StepsOf(tier) ==
    CASE tier = "simple" -> 1 [] tier = "medium" -> 3 [] tier = "complex" -> 5
      [] tier = "expert" -> 6

\* C14: a catalog lookup gives Simple 1 step, Medium 3, Complex 5 and Expert 6;
\* a tier value that is no key gives exactly Medium's pattern; the list
\* returned depends on the tier alone, whatever calls came before.
C14_PureLookup ==
    /\ assessed.by = "get_pattern" =>
          /\ assessed.input \in Complexities =>
                Len(assessed.value) = StepsOf(assessed.input)
          /\ assessed.input \notin Complexities =>
                assessed.value = <<"brain_recall", "web_search", "brain_remember">>
          /\ assessed.value = get_pattern(assessed.input)
    /\ assessed.by = "core_get_pattern" =>
          /\ assessed.input \in Complexities =>
                Len(assessed.value) = StepsOf(assessed.input)
          /\ assessed.input \notin Complexities =>
                /\ Len(assessed.value) = 3
                /\ assessed.value = core_get_pattern("medium")
          /\ assessed.value = core_get_pattern(assessed.input)

\* get_pattern was asked for a tier that is no key and gave Medium's 3 steps
C14_Witness ==
    /\ assessed.by = "get_pattern"
    /\ assessed.input = "unknown"
    /\ Len(assessed.value) = 3

\* C15: in every catalog pattern any two consecutive roles have different
\* hierarchical levels.
C15_LevelsAlternate ==
    assessed.by = "core_get_pattern" =>
        \A i \in 1..(Len(assessed.value) - 1) :
            assessed.value[i].level # assessed.value[i + 1].level

\* the pattern key of the analysis that returned last
ReturnedKey == PatternKey(returned.complexity, returned.pattern)

\* C12: on the first execution ever recorded for a pattern key the adaptive
\* learning strategy decides converged exactly when the mean confidence of the
\* run is at least the base threshold 0.75; the zero historical average of the
\* fresh entry plays no part.
C12_FirstExecutionUsesBaseThreshold ==
    ( /\ returned.by = "analyze_convergence"
      /\ returned.strategies # <<>>
      /\ returned.pattern # <<>>
      /\ pattern_performance[ReturnedKey].executions = 1 )
    => LET confs == SelectConfidences(returned.mcp_results)
       IN  StrategyOf(returned.strategies, "adaptive_learning").converged
           <=> SumSeq(confs) >= 75 * Len(confs)

\* a first execution with mean 0.70: above the 0.10 a zero average would give,
\* below the base threshold, and not converged
C12_Witness ==
    /\ returned.by = "analyze_convergence"
    /\ returned.strategies # <<>>
    /\ returned.pattern = <<"brain_recall">>
    /\ pattern_performance[ReturnedKey].executions = 1
    /\ SelectConfidences(returned.mcp_results) = <<70>>
    /\ ~StrategyOf(returned.strategies, "adaptive_learning").converged

\* C16: every strategy score lies in [0, 1] for every non-empty record list
\* and every reachable state of the store.
C16_ScoresInUnitInterval ==
    (returned.by = "analyze_convergence" /\ returned.strategies # <<>>)
    => \A i \in 1..Len(returned.strategies) :
          /\ ~returned.strategies[i].negative
          /\ ~returned.strategies[i].above_one

\* the tier threshold of the confidence-threshold strategy, in hundredths
TierThreshold(tier) ==
    CASE tier = "simple" -> 65 [] tier = "medium" -> 75 [] tier = "complex" -> 80
      [] tier = "expert" -> 85 [] OTHER -> 75

C11_AlwaysReturnsVerdict ==
    \A r \in Runs :
        (pc[r] = "idle" /\ query[r] # <<>>) =>
            /\ executed[r].returned
            /\ "converged" \in executed[r].convergence_data.keys
            /\ executed[r].path = "except" <=> "error" \in executed[r].convergence_data.keys

\* a call with max_retries = 0 ended: no record, generate raised, and the
\* result returned carries the error marker and a verdict
C11_Witness ==
    /\ max_retries = 0
    /\ pc["r1"] = "idle"
    /\ executed["r1"].returned
    /\ executed["r1"].path = "except"
    /\ "error" \in executed["r1"].convergence_data.keys
    /\ ~executed["r1"].convergence_data.converged

\* C17: every record with success = false a run produces has confidence 0.0
\* and carries an error description, whichever way the tool failed.
C17_FailedRecordsCarryError ==
    \A r \in Runs : \A i \in 1..Len(results[r]) :
        ~results[r][i].success =>
            /\ results[r][i].confidence = 0
            /\ results[r][i].error_message # "None"

\* every tool call of the run returned success with confidence 0.8
AllCallsSucceeded(r) ==
    /\ calls[r] # <<>>
    /\ \A i \in 1..Len(calls[r]) : calls[r][i].outcome \in {"success", "success_raised"}

\* C20: on a fresh engine a query classified Simple gets a 1-step pattern, and
\* when the tool invoker returns success with confidence 0.8 the run returns
\* one successful record and a converged verdict.
C20_SimpleQueryConverges ==
    [][ \A r \in Runs :
          ( /\ pc[r] = "done" /\ pc'[r] = "idle"
            /\ execution_history = <<>>
            /\ complexity[r] = "simple"
            /\ AllCallsSucceeded(r) )
          => /\ Len(pattern[r]) = 1
             /\ Len(executed'[r].mcp_results) = 1
             /\ executed'[r].mcp_results[1].success
             /\ executed'[r].convergence_data.converged ]_vars

\* C21: while one run waits in a retry backoff, any other run of the same
\* engine that has not ended can take its next step (start, tool call, record
\* append, store update): no backoff blocks another run.
C21_BackoffIsPerRun ==
    \A r \in Runs : \A o \in Runs \ {r} :
        (pc[r] = "sleeping" /\ pc[o] # "analyzed") => ENABLED ConcStep(o)

\* r1 waits in its backoff while r2, past a backoff of its own, has its tool
\* call in flight
C21_Witness ==
    /\ pc["r1"] = "sleeping"
    /\ pc["r2"] = "awaiting"
    /\ sleeps["r2"] # <<>>

\* the indices of the tool calls run r made for the given step of its pattern
CallsOfStep(r, s) == {j \in 1..Len(calls[r]) : calls[r][j].step = s}

\* C22: when attempt k of a role succeeds, the role's record has success = true
\* and retry_count = k, exactly k failed attempts preceded it, and the role is
\* not invoked again; no role is invoked more than max_retries times.
C22_StopOnFirstSuccess ==
    \A r \in Runs :
        /\ \A i \in 1..Len(calls[r]) :
              calls[r][i].outcome \in {"success", "success_raised"} =>
                  LET call == calls[r][i]
                      before == {j \in CallsOfStep(r, call.step) : j < i}
                  IN  /\ Len(results[r]) > call.recorded
                      /\ results[r][call.recorded + 1].success
                      /\ results[r][call.recorded + 1].retry_count = call.attempt
                      /\ results[r][call.recorded + 1].tool_name = pattern[r][call.step]
                      /\ Cardinality(before) = call.attempt
                      /\ \A j \in before : calls[r][j].outcome \in {"failed", "raised"}
                      /\ \A j \in CallsOfStep(r, call.step) : j <= i
        /\ \A s \in 1..Len(pattern[r]) : Cardinality(CallsOfStep(r, s)) <= max_retries

\* C23: in the k-th evaluation of a pattern key (k >= 2) the adaptive threshold
\* is min(0.9, A + 0.1) with A the average of the means recorded by
\* evaluations 1..k-1 only; the current mean is appended to the store after the
\* verdict, and converged = (current mean >= that threshold).
C23_ThresholdFromEarlierRuns ==
    ( /\ returned.by = "analyze_convergence"
      /\ returned.strategies # <<>>
      /\ returned.pattern # <<>>
      /\ pattern_performance[ReturnedKey].executions >= 2 )
    => LET perf == pattern_performance[ReturnedKey]
           hist == perf.confidence_history
           current == Mean(SelectConfidences(returned.mcp_results))
           earlier == MeanOfMeans(SubSeq(hist, 1, Len(hist) - 1))
           raised == FracAdd(earlier, Frac(10, 1))
           threshold == IF FracLeq(raised, Frac(90, 1)) THEN raised ELSE Frac(90, 1)
       IN  /\ Len(hist) = perf.executions
           /\ hist[Len(hist)] = current
           /\ StrategyOf(returned.strategies, "adaptive_learning").converged
              <=> FracLeq(threshold, current)

\* second evaluation of a key: 0.70 was recorded, the run's mean is 0.80, the
\* threshold 0.70 + 0.10 is met (it would not be with 0.80 averaged in)
C23_Witness ==
    /\ returned.by = "analyze_convergence"
    /\ returned.strategies # <<>>
    /\ returned.pattern # <<>>
    /\ pattern_performance[ReturnedKey].confidence_history = <<Frac(70, 1), Frac(80, 1)>>
    /\ StrategyOf(returned.strategies, "adaptive_learning").converged

\* C24: the production classifier (substring keywords, assess) and the demo
\* classifier (regular expressions, assess_complexity) assign the same tier to
\* every query.
C24_ClassifiersAgree ==
    /\ assessed.by = "assess" => assessed.value = assess_complexity(assessed.input)
    /\ assessed.by = "assess_complexity" => assessed.value = assess(assessed.input)

\* C25: a converged verdict implies that at least 80% of the run's records
\* succeeded, whatever the records and the state of the store.
C25_ConvergedImpliesSuccessRate ==
    (returned.by \in {"analyze_convergence", "analyze"} /\ returned.value.converged)
    => 5 * Len(SelectConfidences(returned.mcp_results)) >= 4 * Len(returned.mcp_results)

\* C26: evaluating an identical record list for the same tier and pattern once
\* more on the same analyzer yields the same converged flag.
C26_RepetitionKeepsVerdict ==
    [][ ( /\ returned.by = "analyze_convergence"
          /\ returned'.by = "analyze_convergence"
          /\ analyses' = analyses + 1
          /\ returned'.mcp_results = returned.mcp_results
          /\ returned'.complexity = returned.complexity
          /\ returned'.pattern = returned.pattern )
        => returned'.value.converged = returned.value.converged ]_vars

\* the storage keys the brain_remember calls of run r have used so far
KeysOf(r) == {calls[r][j].key : j \in 1..Len(calls[r])} \ {<<>>}

\* C27: two runs on the same engine that reach a brain_remember step use
\* distinct synthesis storage keys, also when their steps interleave.
C27_DistinctStorageKeys ==
    \A r \in Runs : \A o \in Runs \ {r} : KeysOf(r) \cap KeysOf(o) = {}

\* C28: for any result list, detect_convergence reports converged = true
\* whenever iteration >= max_iterations.
C28_IterationCap ==
    (returned.by = "detect_convergence" /\ returned.input.iteration >= max_iterations)
    => returned.value.converged

\* the step in which the execute call of run r returns
Finishes(r) == ~executed[r].returned /\ executed'[r].returned

\* C29: execute appends exactly one entry to execution_history when it
\* completes normally and leaves it unchanged when it returns the error
\* result; no other step changes it, so total_executions counts the normally
\* completed runs.
C29_HistoryCountsCompletedRuns ==
    [][ /\ \A r \in Runs :
              (Finishes(r) /\ executed'[r].path = "try")
              => /\ execution_history' =
                       Append(execution_history, HistoryEntry(executed'[r]))
                 /\ total_executions' = total_executions + 1
        /\ \A r \in Runs :
              (Finishes(r) /\ executed'[r].path = "except")
              => execution_history' = execution_history
        /\ (\A r \in Runs : ~Finishes(r)) => execution_history' = execution_history
      ]_vars

C29_Witness ==
    /\ executed["r1"].returned
    /\ executed["r1"].path = "try"
    /\ total_executions = 1
    /\ execution_history[1].query = executed["r1"].query

\* C30: after any sequence of calls of the tool interface, total_executions
\* equals the number of calls made and success_count + error_count equals
\* total_executions.
C30_StatsAccountForEveryCall ==
    LET stats == get_real_stats(invoker)
    IN  /\ stats.total_executions = invoker.calls_made
        /\ stats.success_count + stats.error_count = stats.total_executions

====
